---- MODULE Spec2Model ----
(***************************************************************************)
(* djapy: the contract wrapper `djapify` (djapy/v2/dec.py and its older    *)
(* form djapy/data/dec2.py), the error-handler registry it consults, and   *)
(* the OpenAPI document generator (djapy/v2/openapi.py).                   *)
(***************************************************************************)
EXTENDS Integers, Sequences, FiniteSets, TLC

VARIABLES
    imported_errorhandler,   \* what importing djapy_ext.errorhandler gave
    errorhandler_functions,  \* _errorhandler_functions of djapy/v2/dec.py
    wrapped_view,            \* the view as djapify left it
    call,                    \* the last call of _wrapped_view and its result
    inflight,                \* the calls of _wrapped_view under way, by thread
    resolved_url,            \* the url patterns get_resolver() holds
    paths,                   \* OpenAPI.paths
    components,              \* OpenAPI.components["schemas"]
    definitions,             \* OpenAPI.definitions
    documents                \* what the last calls of OpenAPI.dict() returned

pipeline_vars ==
    <<imported_errorhandler, errorhandler_functions, wrapped_view, call, inflight>>
openapi_vars == <<resolved_url, paths, components, definitions, documents>>
vars == <<pipeline_vars, openapi_vars>>

-----------------------------------------------------------------------------
(* Bounds of the model. *)

\* the most handler_ functions the extension module holds
MaxHandlers == 2

\* the most url patterns and resolvers the routing tree holds
MaxPatterns == 3

\* the most calls of a wrapped view the host framework has under way at once
MaxRequests == 2

-----------------------------------------------------------------------------
(* Values. *)

\* pydantic's ValidationError and other exception classes, by name
ValidationError == "ValidationError"
AttributeError == "AttributeError"
TypeError == "TypeError"
ViewExceptions == {ValidationError, "NotFoundError", "SubNotFoundError"}

\* direct base class of an exception class ("" for the roots used here)
BaseOf(cls) == IF cls = "SubNotFoundError" THEN "NotFoundError" ELSE ""

\* Schema subclasses and plain callable types a return annotation may name
SchemaClasses == {"UserSchema"}
PlainTypes == {"int"}

\* values a view may return: a dict that satisfies UserSchema, the int 7,
\* the str "7"
ViewValues == {"user", "n", "numstr"}

NoBody == [tag |-> "", arg |-> "", fields |-> {}]
Body(tag, arg, fields) == [tag |-> tag, arg |-> arg, fields |-> fields]

\* an exception instance: its class and, for a ValidationError, the fields
\* its error entries name
NoException == [cls |-> "", fields |-> {}]
Exception(cls) == [cls |-> cls, fields |-> {}]
ValidationErrorOf(fields) == [cls |-> ValidationError, fields |-> fields]

\* what a call ends with: a response, or an exception that leaves the callee
JsonResponse(body, status) ==
    [kind |-> "response", status |-> status, body |-> body, exc |-> NoException]
Raised(exc) ==
    [kind |-> "raised", status |-> 0, body |-> NoBody, exc |-> exc]
None == [kind |-> "none", status |-> 0, body |-> NoBody, exc |-> NoException]

\* the message bodies of djapy.v2.defaults / djapy.data.defaults
DEFAULT_AUTH_REQUIRED_MESSAGE == Body("DEFAULT_AUTH_REQUIRED_MESSAGE", "", {})
DEFAULT_METHOD_NOT_ALLOWED_MESSAGE == Body("DEFAULT_METHOD_NOT_ALLOWED_MESSAGE", "", {})
DEFAULT_MESSAGE_ERROR == Body("DEFAULT_MESSAGE_ERROR", "", {})

\* a return annotation (v2) or the decorator's first argument (data)
NoAnnotation == [kind |-> "none", cls |-> "", map |-> {}]
BareAnnotation(c) == [kind |-> "class", cls |-> c, map |-> {}]
DictAnnotation(m) == [kind |-> "dict", cls |-> "", map |-> m]

Annotations ==
    { NoAnnotation,
      BareAnnotation("UserSchema"),
      DictAnnotation({<<200, "UserSchema">>, <<201, "int">>}),
      DictAnnotation({<<201, "int">>}),
      DictAnnotation({<<200, "int">>}) }

\* dict.get(key, None) on a map kept as a set of <<key, value>> pairs
DictGet(m, key) ==
    IF \E p \in m : p[1] = key THEN (CHOOSE p \in m : p[1] = key)[2] ELSE "None"

DictKeys(m) == {p[1] : p \in m}

\* the allowed_method argument: a str, a list of str, or a falsy value
StrMethod(s) == [kind |-> "str", methods |-> <<s>>]
ListMethod(l) == [kind |-> "list", methods |-> l]
NoMethod == [kind |-> "absent", methods |-> <<>>]
AllowedMethodArgs ==
    { StrMethod("GET"), ListMethod(<<"GET">>), ListMethod(<<"GET", "POST">>),
      ListMethod(<<>>) }

SeqToSet(s) == {s[i] : i \in 1..Len(s)}

\* a view function's signature: its parameters in order
POSITIONAL_OR_KEYWORD == "POSITIONAL_OR_KEYWORD"
VAR_KEYWORD == "VAR_KEYWORD"
Param(name, kind) == [name |-> name, kind |-> kind]
Signatures ==
    { <<Param("request", POSITIONAL_OR_KEYWORD), Param("id", POSITIONAL_OR_KEYWORD),
        Param("name", POSITIONAL_OR_KEYWORD), Param("kwargs", VAR_KEYWORD)>> }

\* the attributes a view function may carry before it is decorated
ViewFuncAttrs == { {}, {"djapy_message_response"}, {"message_response"} }

\* get_required_params: the POSITIONAL_OR_KEYWORD parameters but the first
get_required_params(signature) ==
    {signature[i].name : i \in {j \in 1..Len(signature) :
        signature[j].kind = POSITIONAL_OR_KEYWORD /\ j # 1}}

-----------------------------------------------------------------------------
(* The error-handler registry (djapy/v2/dec.py, module level). *)

\* a handler_ function of the extension module: the annotation of its
\* parameter named 'exception' ("MISSING": it has no such parameter) and
\* what a call of it gives: a non-empty dict ("mapping"), a non-empty dict
\* that JsonResponse cannot serialize, {}, None, a value that is no dict, or
\* an exception
ErrorHandler(annotation, returns) ==
    [annotation |-> annotation, returns |-> returns]

ErrorHandlerPool ==
    { ErrorHandler("NotFoundError", "mapping"),
      ErrorHandler("NotFoundError", "none"),
      ErrorHandler("NotFoundError", "empty_mapping"),
      ErrorHandler("NotFoundError", "non_mapping"),
      ErrorHandler("NotFoundError", "unserializable"),
      ErrorHandler("NotFoundError", "raises"),
      ErrorHandler(ValidationError, "mapping"),
      ErrorHandler(AttributeError, "mapping"),
      ErrorHandler("MISSING", "none") }

\* the extension module as the import finds it: absent, or present with its
\* handler_ functions in dir() order and with or without an attribute named
\* 'handler'
ExtModule(present, has_handler, functions) ==
    [present |-> present, has_handler |-> has_handler, functions |-> functions]

ExtModules ==
    { ExtModule(FALSE, FALSE, <<>>), ExtModule(TRUE, TRUE, <<>>) }
    \cup { ExtModule(TRUE, FALSE, fs) :
             fs \in UNION {[1..n -> ErrorHandlerPool] : n \in 0..MaxHandlers} }

\* lines 37-49: the registry is the module's handler_ functions, or stays
\* empty when the import raises
errorhandler_functions_of(module) ==
    IF module.present THEN module.functions ELSE <<>>

\* the match done with isinstance: a subclass matches its base's entry
ClassMatches_Isinstance(cls, annotation) ==
    cls = annotation \/ BaseOf(cls) = annotation

\* line 56: exception.__class__ == exception_param.annotation
ClassMatches(cls, annotation) == cls = annotation

\* the lookup that ends with the first entry that matches, whatever it returns
RECURSIVE handle_error_from_FirstMatchOnly(_, _, _, _)
handle_error_from_FirstMatchOnly(fs, i, exception, called) ==
    IF i > Len(fs)
    THEN [result |-> None, called |-> called]
    ELSE IF fs[i].annotation = "MISSING"
    THEN [result |-> Raised(Exception(AttributeError)), called |-> called]
    ELSE IF ClassMatches(exception.cls, fs[i].annotation)
    THEN LET called1 == Append(called, i) IN
         CASE fs[i].returns = "raises" ->
                [result |-> Raised(Exception("HandlerError")), called |-> called1]
           [] fs[i].returns = "mapping" ->
                [result |-> JsonResponse(Body("errorhandler_data", ToString(i), {}), 400),
                 called |-> called1]
           [] fs[i].returns = "unserializable" ->
                [result |-> JsonResponse(DEFAULT_MESSAGE_ERROR, 500),
                 called |-> called1]
           [] OTHER -> [result |-> None, called |-> called1]
    ELSE handle_error_from_FirstMatchOnly(fs, i + 1, exception, called)

\* handle_error, lines 52-64, from entry i on; `called` lists the entries
\* invoked so far
RECURSIVE handle_error_from(_, _, _, _)
handle_error_from(fs, i, exception, called) ==
    IF i > Len(fs)
    THEN [result |-> None, called |-> called]
    ELSE IF fs[i].annotation = "MISSING"
    THEN [result |-> Raised(Exception(AttributeError)), called |-> called]
    ELSE IF ClassMatches(exception.cls, fs[i].annotation)
    THEN LET called1 == Append(called, i) IN
         CASE fs[i].returns = "raises" ->
                [result |-> Raised(Exception("HandlerError")), called |-> called1]
           [] fs[i].returns = "mapping" ->
                [result |-> JsonResponse(Body("errorhandler_data", ToString(i), {}), 400),
                 called |-> called1]
           [] fs[i].returns = "unserializable" ->
                [result |-> JsonResponse(DEFAULT_MESSAGE_ERROR, 500),
                 called |-> called1]
           [] OTHER -> handle_error_from(fs, i + 1, exception, called1)
    ELSE handle_error_from(fs, i + 1, exception, called)

\* the walk that skips the first entry
handle_error_SkipsFirst(fs, exception) == handle_error_from(fs, 2, exception, <<>>)

handle_error(fs, exception) == handle_error_from(fs, 1, exception, <<>>)

-----------------------------------------------------------------------------
(* The schema capability and the modules of djapy the wrappers call. *)

\* Schema.model_validate: UserSchema accepts the dict "user" alone
model_validate(schema, value) == schema = "UserSchema" /\ value = "user"

\* validated_data.dict(): the serialized form of a validated value
model_dict(schema, value) == Body("validated_data", value, {})

\* isinstance(value, type) for the plain types
isinstance(value, type) == type = "int" /\ value = "n"

\* int(value): 7 for the int 7 and for the str "7"; a dict raises TypeError
Converts(type, value) == type = "int" /\ value \in {"n", "numstr"}
Convert(type, value) == IF value = "numstr" THEN "n" ELSE value

\* djapy.v2.parser.extract_and_validate_request_params: the required
\* parameters the request supplies no valid value for
FailingParams(required_params, supplied) == required_params \ supplied

\* djapy.v2.response.create_json_from_validation_error, and e.json()
create_json_from_validation_error(exception) ==
    Body("validation_error", "", exception.fields)

\* djapy.v2.response.create_validation_error("Response", "response", ...)
create_validation_error(field) == ValidationErrorOf({field})

\* djapy.utils.prepare_exception.log_exception: the body of the data
\* wrapper's 500
log_exception_body == Body("server_error", "", {})

-----------------------------------------------------------------------------
(* Requests and what the view body does when it is called. *)

Methods == {"GET", "POST"}

Request(method, is_authenticated, supplied) ==
    [method |-> method, is_authenticated |-> is_authenticated, supplied |-> supplied]

NoOutcome == [kind |-> "", status |-> 0, value |-> "", exc |-> ""]
Return(value) == [kind |-> "return", status |-> 0, value |-> value, exc |-> ""]
ReturnTuple(status, value) ==
    [kind |-> "tuple", status |-> status, value |-> value, exc |-> ""]
Raise(exc) == [kind |-> "raise", status |-> 0, value |-> "", exc |-> exc]

Outcomes ==
    {Return(v) : v \in ViewValues}
    \cup {ReturnTuple(200, "user"), ReturnTuple(201, "n"), ReturnTuple(201, "numstr"),
          ReturnTuple(404, "user")}
    \cup {Raise(e) : e \in ViewExceptions}

\* what a call of a wrapped view did: its result, the stages it ran in order,
\* how often it called the view body, the registry entries it invoked, and
\* how often it logged an exception
Ran(result, trace, invoked, called, logged) ==
    [result |-> result, trace |-> trace, invoked |-> invoked,
     called |-> called, logged |-> logged]

-----------------------------------------------------------------------------
(* djapy/v2/dec.py: djapify. *)

Undecorated ==
    [state |-> "undecorated", version |-> "", djapy |-> FALSE, openapi |-> FALSE,
     schema |-> NoAnnotation, djapy_has_login_required |-> FALSE,
     djapy_allowed_method |-> NoMethod, view_func_attrs |-> {},
     required_params |-> {}]

\* allowed_method is truthy: a non-empty str or list
Truthy(allowed_method) == Len(allowed_method.methods) > 0

\* lines 140-144: a list is kept, a str becomes a one-element list
allowed_method_attr_v2(allowed_method) ==
    IF Truthy(allowed_method) THEN ListMethod(allowed_method.methods) ELSE NoMethod

\* decorator, lines 82-146
decorator_v2(signature, attrs, annotation, login_required, allowed_method, openapi) ==
    [state |-> "wrapped", version |-> "v2", djapy |-> TRUE, openapi |-> openapi,
     schema |-> annotation,
     djapy_has_login_required |-> login_required,
     djapy_allowed_method |-> allowed_method_attr_v2(allowed_method),
     view_func_attrs |-> attrs,
     required_params |-> get_required_params(signature)]

\* getattr(view_func, name, default) for a message attribute
MessageOf(view, name, default) ==
    IF name \in view.view_func_attrs THEN Body(name, "", {}) ELSE default

\* the login gate with its `not` dropped
AuthRefused_NotDropped(view, request) ==
    view.djapy_has_login_required /\ request.is_authenticated

\* lines 90-92: the login gate refuses the request
AuthRefused(view, request) ==
    view.djapy_has_login_required /\ ~request.is_authenticated

\* the method gate without its branch for a str
MethodRefused_ListOnly(view, request) ==
    /\ view.djapy_allowed_method.kind = "list"
    /\ request.method \notin SeqToSet(view.djapy_allowed_method.methods)

\* lines 93-98: the method gate refuses the request
MethodRefused(view, request) ==
    \/ /\ view.djapy_allowed_method.kind = "list"
       /\ request.method \notin SeqToSet(view.djapy_allowed_method.methods)
    \/ /\ view.djapy_allowed_method.kind = "str"
       /\ request.method # view.djapy_allowed_method.methods[1]

\* the resolution falling back to the schema of 200 for an undeclared status
resolve_v2_Fallback200(x_schema, outcome) ==
    LET status == IF outcome.kind = "tuple" THEN outcome.status ELSE 200
        response == outcome.value
        schema_or_type == IF status \in DictKeys(x_schema.map)
                          THEN DictGet(x_schema.map, status)
                          ELSE DictGet(x_schema.map, 200)
    IN  IF x_schema.kind # "dict"
        THEN Raised(Exception(AttributeError))
        ELSE IF schema_or_type \in SchemaClasses
        THEN IF model_validate(schema_or_type, response)
             THEN JsonResponse(model_dict(schema_or_type, response), status)
             ELSE Raised(ValidationErrorOf({"response"}))
        ELSE IF schema_or_type # "None" /\ isinstance(response, schema_or_type)
        THEN JsonResponse(Body("converted", Convert(schema_or_type, response), {}), status)
        ELSE IF schema_or_type = "None"
        THEN Raised(Exception(AttributeError))
        ELSE Raised(create_validation_error("response"))

\* the resolution that applies a plain type to whatever it converts
resolve_v2_ConvertsDirectly(x_schema, outcome) ==
    LET status == IF outcome.kind = "tuple" THEN outcome.status ELSE 200
        response == outcome.value
        schema_or_type == DictGet(x_schema.map, status)
    IN  IF x_schema.kind # "dict"
        THEN Raised(Exception(AttributeError))
        ELSE IF schema_or_type \in SchemaClasses
        THEN IF model_validate(schema_or_type, response)
             THEN JsonResponse(model_dict(schema_or_type, response), status)
             ELSE Raised(ValidationErrorOf({"response"}))
        ELSE IF schema_or_type # "None" /\ Converts(schema_or_type, response)
        THEN JsonResponse(Body("converted", Convert(schema_or_type, response), {}), status)
        ELSE IF schema_or_type = "None"
        THEN Raised(Exception(AttributeError))
        ELSE Raised(create_validation_error("response"))

\* lines 102-115: the response for what the view returned, or the exception
\* raised on the way
resolve_v2(x_schema, outcome) ==
    LET status == IF outcome.kind = "tuple" THEN outcome.status ELSE 200
        response == outcome.value
        schema_or_type == DictGet(x_schema.map, status)
    IN  IF x_schema.kind # "dict"
        THEN Raised(Exception(AttributeError))
        ELSE IF schema_or_type \in SchemaClasses
        THEN IF model_validate(schema_or_type, response)
             THEN JsonResponse(model_dict(schema_or_type, response), status)
             ELSE Raised(ValidationErrorOf({"response"}))
        ELSE IF schema_or_type # "None" /\ isinstance(response, schema_or_type)
        THEN JsonResponse(Body("converted", Convert(schema_or_type, response), {}), status)
        ELSE IF schema_or_type = "None"
        THEN Raised(Exception(AttributeError))
        ELSE Raised(create_validation_error("response"))

\* lines 99-115: the try block
try_v2(view, request, outcome) ==
    LET failing == FailingParams(view.required_params, request.supplied) IN
    IF failing # {}
    THEN Ran(Raised(ValidationErrorOf(failing)), <<"ParamValidation">>, 0, <<>>, 0)
    ELSE IF outcome.kind = "raise"
    THEN Ran(Raised(Exception(outcome.exc)), <<"ParamValidation", "Invoke">>, 1, <<>>, 0)
    ELSE Ran(resolve_v2(view.schema, outcome),
             <<"ParamValidation", "Invoke", "ResponseResolve">>, 1, <<>>, 0)

\* the except branch without its answer for a ValidationError
except_v2_NoValidationBranch(fs, tried) ==
    LET exception == tried.result.exc
        error_response == handle_error(fs, exception)
        trace == Append(tried.trace, "ErrorDispatch")
    IN  IF error_response.result.kind # "none"
        THEN Ran(error_response.result, trace, tried.invoked, error_response.called, 1)
        ELSE Ran(JsonResponse(DEFAULT_MESSAGE_ERROR, 500),
                 trace, tried.invoked, error_response.called, 1)

\* lines 117-127: the except branch
except_v2(fs, tried) ==
    LET exception == tried.result.exc
        error_response == handle_error(fs, exception)
        trace == Append(tried.trace, "ErrorDispatch")
    IN  IF error_response.result.kind # "none"
        THEN Ran(error_response.result, trace, tried.invoked, error_response.called, 1)
        ELSE IF exception.cls = ValidationError
        THEN Ran(JsonResponse(create_json_from_validation_error(exception), 400),
                 trace, tried.invoked, error_response.called, 1)
        ELSE Ran(JsonResponse(DEFAULT_MESSAGE_ERROR, 500),
                 trace, tried.invoked, error_response.called, 1)

\* _wrapped_view with the method gate moved before the login gate
wrapped_view_v2_MethodFirst(view, fs, request, outcome) ==
    IF MethodRefused(view, request)
    THEN Ran(JsonResponse(MessageOf(view, "djapy_message_response",
                                    DEFAULT_METHOD_NOT_ALLOWED_MESSAGE), 405),
             <<"MethodCheck">>, 0, <<>>, 0)
    ELSE IF AuthRefused(view, request)
    THEN Ran(JsonResponse(MessageOf(view, "djapy_message_response",
                                    DEFAULT_AUTH_REQUIRED_MESSAGE), 401),
             <<"MethodCheck", "AuthCheck">>, 0, <<>>, 0)
    ELSE LET tried == try_v2(view, request, outcome)
             ran == IF tried.result.kind = "response" THEN tried
                    ELSE except_v2(fs, tried)
         IN  [ran EXCEPT !.trace = <<"MethodCheck", "AuthCheck">> \o @]

\* _wrapped_view, lines 86-127
wrapped_view_v2(view, fs, request, outcome) ==
    IF AuthRefused(view, request)
    THEN Ran(JsonResponse(MessageOf(view, "djapy_message_response",
                                    DEFAULT_AUTH_REQUIRED_MESSAGE), 401),
             <<"AuthCheck">>, 0, <<>>, 0)
    ELSE IF MethodRefused(view, request)
    THEN Ran(JsonResponse(MessageOf(view, "djapy_message_response",
                                    DEFAULT_METHOD_NOT_ALLOWED_MESSAGE), 405),
             <<"AuthCheck", "MethodCheck">>, 0, <<>>, 0)
    ELSE LET tried == try_v2(view, request, outcome)
             ran == IF tried.result.kind = "response" THEN tried
                    ELSE except_v2(fs, tried)
         IN  [ran EXCEPT !.trace = <<"AuthCheck", "MethodCheck">> \o @]

-----------------------------------------------------------------------------
(* djapy/data/dec2.py: djapify. *)

\* lines 43-44: anything but a dict becomes the schema of status 200
schema_map_data(schema_or_view_func) ==
    IF schema_or_view_func.kind = "dict"
    THEN schema_or_view_func
    ELSE DictAnnotation({<<200, IF schema_or_view_func.kind = "class"
                                THEN schema_or_view_func.cls ELSE "None">>})

\* line 50: getattr(_imported_errorhandler, 'handler') with no default
handler_attr_found(module) == module.present /\ module.has_handler

\* lines 43-105
decorator_data(module, signature, attrs, schema_or_view_func, login_required, allowed_method, openapi) ==
    IF ~handler_attr_found(module)
    THEN [Undecorated EXCEPT !.state = "failed", !.version = "data"]
    ELSE [state |-> "wrapped", version |-> "data", djapy |-> TRUE, openapi |-> openapi,
          schema |-> schema_map_data(schema_or_view_func),
          djapy_has_login_required |-> login_required,
          djapy_allowed_method |->
              IF Truthy(allowed_method) THEN allowed_method ELSE NoMethod,
          view_func_attrs |-> attrs,
          required_params |-> get_required_params(signature)]

\* lines 83-92: the response for what the view returned
resolve_data(schema_map, outcome) ==
    LET schema == DictGet(schema_map.map, 200)
        func == IF outcome.kind = "tuple" THEN "tuple" ELSE outcome.value
    IN  IF schema = "None"
        THEN Raised(Exception(TypeError))
        ELSE IF schema \in SchemaClasses
        THEN IF model_validate(schema, func)
             THEN JsonResponse(model_dict(schema, func), 200)
             ELSE JsonResponse(create_json_from_validation_error(
                                   ValidationErrorOf({"response"})), 400)
        ELSE IF Converts(schema, func)
        THEN JsonResponse(Body("converted", Convert(schema, func), {}), 200)
        ELSE Raised(Exception(TypeError))

\* _wrapped_view, lines 55-92
wrapped_view_data(view, request, outcome) ==
    LET failing == FailingParams(view.required_params, request.supplied) IN
    IF AuthRefused(view, request)
    THEN Ran(JsonResponse(MessageOf(view, "djapy_message_response",
                                    DEFAULT_AUTH_REQUIRED_MESSAGE), 401),
             <<"AuthCheck">>, 0, <<>>, 0)
    ELSE IF MethodRefused(view, request)
    THEN Ran(JsonResponse(MessageOf(view, "message_response",
                                    DEFAULT_METHOD_NOT_ALLOWED_MESSAGE), 405),
             <<"AuthCheck", "MethodCheck">>, 0, <<>>, 0)
    ELSE IF failing # {}
    THEN Ran(JsonResponse(create_json_from_validation_error(
                              ValidationErrorOf(failing)), 400),
             <<"AuthCheck", "MethodCheck", "ParamValidation">>, 0, <<>>, 0)
    ELSE IF outcome.kind = "raise"
    THEN Ran(JsonResponse(log_exception_body, 500),
             <<"AuthCheck", "MethodCheck", "ParamValidation", "Invoke">>, 1, <<>>, 1)
    ELSE Ran(resolve_data(view.schema, outcome),
             <<"AuthCheck", "MethodCheck", "ParamValidation", "Invoke",
               "ResponseResolve">>, 1, <<>>, 0)

-----------------------------------------------------------------------------
(* djapy/v2/openapi.py: the routing tree and the document generator. *)

\* a route is a sequence of segments: literals and typed captures
Literal(text) == [kind |-> "literal", text |-> text]
IntCapture(name) == [kind |-> "int", text |-> name]
StrCapture(name) == [kind |-> "str", text |-> name]
Placeholder(name) == [kind |-> "placeholder", text |-> name]

\* make_path_name_from_url, lines 57-63: re.sub('<int:(.+?)>', '{\g<1>}', ...)
make_path_name_from_url(route) ==
    [i \in 1..Len(route) |->
        IF route[i].kind = "int" THEN Placeholder(route[i].text) ELSE route[i]]

\* a URLPattern (a leaf with its callback) and a URLResolver (an include,
\* whose callback is None)
URLPattern(route, callback, name) ==
    [kind |-> "pattern", route |-> route, callback |-> callback, name |-> name,
     url_patterns |-> <<>>]
URLResolver(route, url_patterns) ==
    [kind |-> "resolver", route |-> route, callback |-> Undecorated, name |-> "",
     url_patterns |-> url_patterns]

DocSignature ==
    <<Param("request", POSITIONAL_OR_KEYWORD), Param("id", POSITIONAL_OR_KEYWORD)>>

\* the leaves a routing tree is built from
Leaves ==
    { URLPattern(<<Literal("users"), IntCapture("id")>>,
                 decorator_v2(DocSignature, {},
                              DictAnnotation({<<200, "UserSchema">>, <<201, "int">>}),
                              FALSE, StrMethod("GET"), TRUE),
                 "get_user"),
      URLPattern(<<Literal("users"), IntCapture("id")>>,
                 decorator_v2(DocSignature, {}, DictAnnotation({<<201, "int">>}),
                              TRUE, ListMethod(<<"GET", "POST">>), TRUE),
                 "put_user"),
      URLPattern(<<Literal("items"), StrCapture("slug")>>,
                 decorator_v2(DocSignature, {},
                              DictAnnotation({<<200, "UserSchema">>, <<201, "int">>}),
                              FALSE, StrMethod("GET"), TRUE),
                 "get_item"),
      URLPattern(<<Literal("hidden")>>,
                 decorator_v2(DocSignature, {},
                              DictAnnotation({<<200, "UserSchema">>, <<201, "int">>}),
                              FALSE, StrMethod("GET"), FALSE),
                 "hidden"),
      URLPattern(<<Literal("plain")>>, Undecorated, "plain"),
      URLPattern(<<Literal("bare")>>,
                 decorator_v2(DocSignature, {}, BareAnnotation("UserSchema"),
                              FALSE, StrMethod("GET"), TRUE),
                 "bare") }

\* the nodes of a tree, resolvers included
RECURSIVE NodeCount(_)
NodeCount(url_patterns) ==
    IF url_patterns = <<>> THEN 0
    ELSE 1 + NodeCount(Head(url_patterns).url_patterns) + NodeCount(Tail(url_patterns))

\* the pairs kept as a list that every assignment appends to
DictSet_Append(d, key, value) == Append(d, <<key, value>>)

\* a dict, kept as its <<key, value>> pairs in insertion order: d[key] = value
DictSet(d, key, value) ==
    IF \E i \in 1..Len(d) : d[i][1] = key
    THEN [i \in 1..Len(d) |-> IF d[i][1] = key THEN <<key, value>> ELSE d[i]]
    ELSE Append(d, <<key, value>>)

\* dict.update
RECURSIVE DictUpdate(_, _)
DictUpdate(d, other) ==
    IF other = <<>> THEN d
    ELSE DictUpdate(DictSet(d, Head(other)[1], Head(other)[2]), Tail(other))

\* the statuses a response map may hold, in the order the model renders them
Statuses == <<200, 201, 404>>

\* response_model.schema(ref_template=...): a Schema class renders as a
\* reference with its definition under $defs, a plain type inline
RenderedContent(type) ==
    IF type \in SchemaClasses
    THEN [ref |-> "#/components/schemas/" \o type, type |-> ""]
    ELSE [ref |-> "", type |-> "integer"]
RenderedDefs(type) ==
    IF type \in SchemaClasses THEN <<<<type, "definition of " \o type>>>> ELSE <<>>

\* get_responses, lines 65-84: the responses by status, and the components
\* they export
RECURSIVE get_responses_from(_, _, _)
get_responses_from(schema_map, i, got) ==
    IF i > Len(Statuses) THEN got
    ELSE IF Statuses[i] \notin DictKeys(schema_map) THEN get_responses_from(schema_map, i + 1, got)
    ELSE LET status == Statuses[i]
             schema == DictGet(schema_map, status)
         IN  get_responses_from(schema_map, i + 1,
                 [responses |-> DictSet(got.responses, status,
                      [description |-> IF status = 200 THEN "OK" ELSE "Else 200",
                       content |-> RenderedContent(schema)]),
                  export_components |->
                      DictUpdate(got.export_components, RenderedDefs(schema))])

get_responses(view_func) ==
    get_responses_from(view_func.schema.map, 1,
                       [responses |-> <<>>, export_components |-> <<>>])

\* get_request_body, lines 41-55: the model of the required parameters
get_request_body(view_func) == [properties |-> view_func.required_params]

\* Path(url_pattern, methods) raises: the callback has no
\* djapy_allowed_method (line 151), its schema has no items() (line 67), or
\* it has no required_params (line 44, a view wrapped by djapy.data)
PathRaises(url_pattern) ==
    \/ url_pattern.callback.djapy_allowed_method.kind = "absent"
    \/ url_pattern.callback.version = "v2" /\ url_pattern.callback.schema.kind # "dict"
    \/ url_pattern.callback.version = "data"

\* Path.dict, lines 86-96: one operation per method
Path_dict(url_pattern) ==
    LET methods == url_pattern.callback.djapy_allowed_method.methods
        operation == [summary |-> "Register and login user",
                      operationId |-> url_pattern.name,
                      responses |-> get_responses(url_pattern.callback).responses,
                      parameters |-> <<>>,
                      requestBody |-> get_request_body(url_pattern.callback)]
    IN  [i \in 1..Len(methods) |-> <<methods[i], operation>>]

\* line 150: the leaf carries both markers
Included(url_pattern) == url_pattern.callback.djapy /\ url_pattern.callback.openapi

\* generate_paths, lines 148-159, over the class-level paths, components and
\* definitions in st; st.raised once a Path() raised, st.contributed the
\* operation ids of the leaves whose path line 157 assigned, in walk order
RECURSIVE generate_paths(_, _)
generate_paths(st, url_patterns) ==
    IF url_patterns = <<>> \/ st.raised THEN st
    ELSE LET url_pattern == Head(url_patterns)
             st1 == IF ~Included(url_pattern) THEN st
                    ELSE IF PathRaises(url_pattern) THEN [st EXCEPT !.raised = TRUE]
                    ELSE [st EXCEPT
                            !.components = DictUpdate(@,
                                get_responses(url_pattern.callback).export_components),
                            !.paths = DictSet(@, make_path_name_from_url(url_pattern.route),
                                              Path_dict(url_pattern)),
                            !.contributed = Append(@, url_pattern.name)]
             st2 == IF url_pattern.kind = "resolver"
                    THEN generate_paths(st1, url_pattern.url_patterns)
                    ELSE st1
         IN  generate_paths(st2, Tail(url_patterns))

\* OpenAPI.dict, lines 161-169: the document, or the exception of the walk
NoDocument == [kind |-> "none", paths |-> <<>>, components |-> <<>>, defs |-> <<>>]
Document(st) ==
    IF st.raised
    THEN [kind |-> "raised", paths |-> <<>>, components |-> <<>>, defs |-> <<>>]
    ELSE [kind |-> "document", paths |-> st.paths, components |-> st.components,
          defs |-> st.definitions]

\* the last two results of OpenAPI.dict(), how many calls were made
\* since the tree last changed (2 standing for two or more), and the leaves
\* the last call built a path for
NoDocuments ==
    [last |-> NoDocument, previous |-> NoDocument, stable |-> 0, contributed |-> <<>>]

\* the class-level dicts as the class statement leaves them, lines 117-119
WalkFrom(paths_, components_, definitions_) ==
    [paths |-> paths_, components |-> components_, definitions |-> definitions_,
     raised |-> FALSE, contributed |-> <<>>]

-----------------------------------------------------------------------------
(* The wrapped view at work. *)

_wrapped_view(view, fs, request, outcome) ==
    IF view.version = "v2"
    THEN wrapped_view_v2(view, fs, request, outcome)
    ELSE wrapped_view_data(view, request, outcome)

\* the requests and view behaviours a call is tried with: what the wrapper
\* never reads (the parameters of a refused request, the behaviour of a view
\* body that is not reached) is left blank
CallInputs(view) ==
    { io \in (Methods \X BOOLEAN \X SUBSET view.required_params)
               \X (Outcomes \cup {NoOutcome}) :
        LET request == Request(io[1][1], io[1][2], io[1][3])
            refused == AuthRefused(view, request) \/ MethodRefused(view, request)
            failing == FailingParams(view.required_params, request.supplied)
        IN  /\ refused => request.supplied = {}
            /\ (io[2] = NoOutcome) <=> (refused \/ failing # {}) }

NoCall ==
    [request |-> Request("", FALSE, {}), outcome |-> NoOutcome,
     ran |-> Ran(None, <<>>, 0, <<>>, 0)]

\* a thread of the host framework: where its call of _wrapped_view stands,
\* the request and the behaviour of the view body, the exception the try
\* block caught, and what the call did so far
Idle ==
    [pc |-> "idle", request |-> Request("", FALSE, {}), outcome |-> NoOutcome,
     exception |-> NoException, ran |-> Ran(None, <<>>, 0, <<>>, 0)]

Threads == 1..MaxRequests

NoneInFlight == [t \in Threads |-> Idle]

Init ==
    /\ imported_errorhandler \in ExtModules
    /\ errorhandler_functions = errorhandler_functions_of(imported_errorhandler)
    /\ wrapped_view = Undecorated
    /\ call = NoCall
    /\ inflight = NoneInFlight
    /\ resolved_url = <<>>
    /\ paths = <<>>
    /\ components = <<>>
    /\ definitions = <<>>
    /\ documents = NoDocuments

\* a view function is decorated with djapy.v2.dec.djapify
DjapifyV2 ==
    /\ wrapped_view.state = "undecorated"
    /\ \E signature \in Signatures, attrs \in ViewFuncAttrs,
          annotation \in Annotations, login_required \in BOOLEAN,
          allowed_method \in AllowedMethodArgs :
         wrapped_view' = decorator_v2(signature, attrs, annotation, login_required,
                                      allowed_method, TRUE)
    /\ UNCHANGED <<imported_errorhandler, errorhandler_functions, call, inflight,
                   openapi_vars>>

\* a view function is decorated with djapy.data.dec2.djapify
DjapifyData ==
    /\ wrapped_view.state = "undecorated"
    /\ \E signature \in Signatures, attrs \in ViewFuncAttrs,
          schema_or_view_func \in Annotations, login_required \in BOOLEAN,
          allowed_method \in AllowedMethodArgs :
         wrapped_view' = decorator_data(imported_errorhandler, signature, attrs,
                                        schema_or_view_func, login_required,
                                        allowed_method, FALSE)
    /\ UNCHANGED <<imported_errorhandler, errorhandler_functions, call, inflight,
                   openapi_vars>>

\* the host framework calls the wrapped view with a request
Call ==
    /\ wrapped_view.state = "wrapped"
    /\ call = NoCall
    /\ \E io \in CallInputs(wrapped_view) :
         LET request == Request(io[1][1], io[1][2], io[1][3]) IN
         call' = [request |-> request, outcome |-> io[2],
                  ran |-> _wrapped_view(wrapped_view, errorhandler_functions,
                                        request, io[2])]
    /\ UNCHANGED <<imported_errorhandler, errorhandler_functions, wrapped_view,
                   inflight, openapi_vars>>

\* the host framework takes what the call ended with; the next request may come
Deliver ==
    /\ call # NoCall
    /\ call' = NoCall
    /\ UNCHANGED <<imported_errorhandler, errorhandler_functions, wrapped_view,
                   inflight, openapi_vars>>

Next == DjapifyV2 \/ DjapifyData \/ Call \/ Deliver

Spec == Init /\ [][Next]_vars

-----------------------------------------------------------------------------
(* The document generator at work. *)

InitDoc ==
    /\ imported_errorhandler = ExtModule(FALSE, FALSE, <<>>)
    /\ errorhandler_functions = <<>>
    /\ wrapped_view = Undecorated
    /\ call = NoCall
    /\ inflight = NoneInFlight
    /\ resolved_url = <<>>
    /\ paths = <<>>
    /\ components = <<>>
    /\ definitions = <<>>
    /\ documents = NoDocuments

TreeChanged ==
    documents' = [documents EXCEPT !.stable = 0, !.previous = NoDocument,
                                   !.contributed = <<>>]

\* the project adds a url pattern
AddPattern ==
    /\ NodeCount(resolved_url) < MaxPatterns
    /\ \E leaf \in Leaves : resolved_url' = Append(resolved_url, leaf)
    /\ TreeChanged
    /\ UNCHANGED <<pipeline_vars, paths, components, definitions>>

\* the project moves its url patterns under an include()
Nest ==
    /\ resolved_url # <<>>
    /\ NodeCount(resolved_url) < MaxPatterns
    /\ resolved_url' = <<URLResolver(<<Literal("api")>>, resolved_url)>>
    /\ TreeChanged
    /\ UNCHANGED <<pipeline_vars, paths, components, definitions>>

\* the project drops a url pattern or an include()
RemovePattern ==
    /\ \E i \in 1..Len(resolved_url) :
         resolved_url' = SubSeq(resolved_url, 1, i - 1)
                         \o SubSeq(resolved_url, i + 1, Len(resolved_url))
    /\ TreeChanged
    /\ UNCHANGED <<pipeline_vars, paths, components, definitions>>

\* OpenAPI().dict()
Generate ==
    LET st == generate_paths(WalkFrom(paths, components, definitions), resolved_url)
    IN  /\ paths' = st.paths
        /\ components' = st.components
        /\ definitions' = st.definitions
        /\ documents' = [last |-> Document(st),
                         previous |-> IF documents.stable >= 1 THEN documents.last
                                      ELSE NoDocument,
                         stable |-> IF documents.stable >= 1 THEN 2 ELSE 1,
                         contributed |-> st.contributed]
        /\ UNCHANGED <<pipeline_vars, resolved_url>>

NextDoc == AddPattern \/ Nest \/ RemovePattern \/ Generate

SpecDoc == InitDoc /\ [][NextDoc]_vars


-----------------------------------------------------------------------------
(* Calls of one v2-wrapped view by several threads of the host framework,   *)
(* each going through _wrapped_view a statement at a time.                  *)

\* the handler_ functions the extension module holds here, and the views
ConcPool ==
    { ErrorHandler("NotFoundError", "none"), ErrorHandler("NotFoundError", "mapping") }
ConcModules == { ExtModule(TRUE, FALSE, fs) : fs \in [1..MaxHandlers -> ConcPool] }
ConcViews ==
    { decorator_v2(CHOOSE signature \in Signatures : TRUE, {},
                   DictAnnotation({<<200, "UserSchema">>, <<201, "int">>}),
                   login_required, StrMethod("GET"), TRUE) :
        login_required \in BOOLEAN }

\* the requests and view behaviours a thread is given
ConcInputs(view) ==
    { io \in CallInputs(view) :
        /\ io[1][3] \in {{}, view.required_params}
        /\ io[2] \in {NoOutcome, Return("user"), ReturnTuple(404, "user"),
                       Raise("NotFoundError")} }

\* the registry that forgets its first entry once a lookup was made
registry_after_handle_error_Consumed(fs) == IF fs = <<>> THEN fs ELSE Tail(fs)

\* lines 53-64: the for loop reads _errorhandler_functions and leaves it
registry_after_handle_error(fs) == fs

\* line 107: x_schema.get(status, None) reads the mapping and leaves it
x_schema_after_get(x_schema, status) == x_schema

InitConc ==
    /\ imported_errorhandler \in ConcModules
    /\ errorhandler_functions = errorhandler_functions_of(imported_errorhandler)
    /\ wrapped_view \in ConcViews
    /\ call = NoCall
    /\ inflight = NoneInFlight
    /\ resolved_url = <<>>
    /\ paths = <<>>
    /\ components = <<>>
    /\ definitions = <<>>
    /\ documents = NoDocuments

\* thread t goes on as `next`; the registry and the view stay
Goes(t, next) ==
    /\ inflight' = [inflight EXCEPT ![t] = next]
    /\ UNCHANGED <<imported_errorhandler, errorhandler_functions, wrapped_view, call,
                   openapi_vars>>

\* the host framework calls the wrapped view on thread t
Arrive(t) ==
    /\ inflight[t].pc = "idle"
    /\ \E io \in ConcInputs(wrapped_view) :
         Goes(t, [Idle EXCEPT !.pc = "AuthCheck",
                              !.request = Request(io[1][1], io[1][2], io[1][3]),
                              !.outcome = io[2]])

\* lines 87-92
StepAuthCheck(t) ==
    LET th == inflight[t]
        trace == Append(th.ran.trace, "AuthCheck")
    IN  /\ th.pc = "AuthCheck"
        /\ Goes(t, IF AuthRefused(wrapped_view, th.request)
                   THEN [th EXCEPT !.pc = "done",
                            !.ran = Ran(JsonResponse(MessageOf(wrapped_view,
                                            "djapy_message_response",
                                            DEFAULT_AUTH_REQUIRED_MESSAGE), 401),
                                        trace, 0, <<>>, 0)]
                   ELSE [th EXCEPT !.pc = "MethodCheck", !.ran.trace = trace])

\* lines 93-98
StepMethodCheck(t) ==
    LET th == inflight[t]
        trace == Append(th.ran.trace, "MethodCheck")
    IN  /\ th.pc = "MethodCheck"
        /\ Goes(t, IF MethodRefused(wrapped_view, th.request)
                   THEN [th EXCEPT !.pc = "done",
                            !.ran = Ran(JsonResponse(MessageOf(wrapped_view,
                                            "djapy_message_response",
                                            DEFAULT_METHOD_NOT_ALLOWED_MESSAGE), 405),
                                        trace, 0, <<>>, 0)]
                   ELSE [th EXCEPT !.pc = "ParamValidation", !.ran.trace = trace])

\* line 100
StepParamValidation(t) ==
    LET th == inflight[t]
        trace == Append(th.ran.trace, "ParamValidation")
        failing == FailingParams(wrapped_view.required_params, th.request.supplied)
    IN  /\ th.pc = "ParamValidation"
        /\ Goes(t, IF failing # {}
                   THEN [th EXCEPT !.pc = "ErrorDispatch", !.ran.trace = trace,
                                   !.exception = ValidationErrorOf(failing)]
                   ELSE [th EXCEPT !.pc = "Invoke", !.ran.trace = trace])

\* line 101
StepInvoke(t) ==
    LET th == inflight[t]
        trace == Append(th.ran.trace, "Invoke")
    IN  /\ th.pc = "Invoke"
        /\ Goes(t, IF th.outcome.kind = "raise"
                   THEN [th EXCEPT !.pc = "ErrorDispatch", !.ran.trace = trace,
                                   !.ran.invoked = @ + 1,
                                   !.exception = Exception(th.outcome.exc)]
                   ELSE [th EXCEPT !.pc = "ResponseResolve", !.ran.trace = trace,
                                   !.ran.invoked = @ + 1])

\* lines 102-115
StepResponseResolve(t) ==
    LET th == inflight[t]
        trace == Append(th.ran.trace, "ResponseResolve")
        status == IF th.outcome.kind = "tuple" THEN th.outcome.status ELSE 200
        resolved == resolve_v2(wrapped_view.schema, th.outcome)
    IN  /\ th.pc = "ResponseResolve"
        /\ inflight' = [inflight EXCEPT ![t] =
               IF resolved.kind = "response"
               THEN [th EXCEPT !.pc = "done", !.ran.trace = trace,
                               !.ran.result = resolved]
               ELSE [th EXCEPT !.pc = "ErrorDispatch", !.ran.trace = trace,
                               !.exception = resolved.exc]]
        /\ wrapped_view' =
               [wrapped_view EXCEPT !.schema = x_schema_after_get(@, status)]
        /\ UNCHANGED <<imported_errorhandler, errorhandler_functions, call, openapi_vars>>

\* lines 117-127
StepErrorDispatch(t) ==
    LET th == inflight[t] IN
    /\ th.pc = "ErrorDispatch"
    /\ inflight' = [inflight EXCEPT ![t] =
           [th EXCEPT !.pc = "done",
                      !.ran = except_v2(errorhandler_functions,
                                        [th.ran EXCEPT !.result = Raised(th.exception)])]]
    /\ errorhandler_functions' = registry_after_handle_error(errorhandler_functions)
    /\ UNCHANGED <<imported_errorhandler, wrapped_view, call, openapi_vars>>

\* the host framework takes what the call on thread t ended with
Respond(t) ==
    /\ inflight[t].pc = "done"
    /\ Goes(t, Idle)

NextConc ==
    \E t \in Threads :
        \/ Arrive(t)
        \/ StepAuthCheck(t)
        \/ StepMethodCheck(t)
        \/ StepParamValidation(t)
        \/ StepInvoke(t)
        \/ StepResponseResolve(t)
        \/ StepErrorDispatch(t)
        \/ Respond(t)

SpecConc == InitConc /\ [][NextConc]_vars

-----------------------------------------------------------------------------
(* What the claims speak of. *)

\* a call of the wrapped view has ended and was not yet taken
Handled == wrapped_view.state = "wrapped" /\ call # NoCall

\* the contract's allowedMethods is ["GET"]
GetOnly ==
    /\ wrapped_view.djapy_allowed_method.kind \in {"list", "str"}
    /\ wrapped_view.djapy_allowed_method.methods = <<"GET">>

\* the request's method is outside a non-empty allowedMethods
MethodOutside ==
    /\ wrapped_view.djapy_allowed_method.kind \in {"list", "str"}
    /\ call.request.method \notin SeqToSet(wrapped_view.djapy_allowed_method.methods)

\* an unauthenticated request to a handler with loginRequired
Unauthenticated ==
    wrapped_view.djapy_has_login_required /\ ~call.request.is_authenticated

PassedGates == ~Unauthenticated /\ ~MethodOutside

\* the required parameters the request lacks
Missing == wrapped_view.required_params \ call.request.supplied

\* the body is the view's configured message or the default one
ConfiguredOrDefault(body, default) ==
    /\ body = default \/ (body.tag \in wrapped_view.view_func_attrs /\ body.fields = {})
    /\ wrapped_view.view_func_attrs = {} => body = default

IsResponse(status) ==
    call.ran.result.kind = "response" /\ call.ran.result.status = status

\* a success response: the serialized value the view returned
IsSuccess ==
    /\ call.ran.result.kind = "response"
    /\ call.ran.result.body.tag \in {"validated_data", "converted"}

\* the generic 500
IsServerError ==
    /\ IsResponse(500)
    /\ call.ran.result.body \in {DEFAULT_MESSAGE_ERROR, log_exception_body}

\* the 400 with an entry per field of `fields`
IsValidationError(fields) ==
    /\ IsResponse(400)
    /\ call.ran.result.body = Body("validation_error", "", fields)

\* the view body was reached and raised
ViewRaised == PassedGates /\ Missing = {} /\ call.outcome.kind = "raise"

\* the view body was reached and returned
ViewReturned == PassedGates /\ Missing = {} /\ call.outcome.kind \in {"return", "tuple"}

\* the status the view produced: that of its pair, or 200 for a bare value
ProducedStatus == IF call.outcome.kind = "tuple" THEN call.outcome.status ELSE 200

-----------------------------------------------------------------------------
(* C1 *)

\* C1 (as stated): with allowedMethods = ["GET"], every POST request ends
\* with 405 and the configured or default method-not-allowed message, and
\* the view body is not invoked.
C1_PostRefused405 ==
    (Handled /\ GetOnly /\ call.request.method = "POST") =>
        /\ IsResponse(405)
        /\ ConfiguredOrDefault(call.ran.result.body, DEFAULT_METHOD_NOT_ALLOWED_MESSAGE)
        /\ call.ran.invoked = 0

\* C1 (amended): with allowedMethods = ["GET"], a POST request never reaches
\* the view body; it ends with 405 and the configured or default
\* method-not-allowed message, unless the handler has loginRequired and the
\* request is unauthenticated: the login gate comes first and answers 401.
C1_PostRefusedAfterLoginGate ==
    (Handled /\ GetOnly /\ call.request.method = "POST") =>
        /\ call.ran.invoked = 0
        /\ "Invoke" \notin SeqToSet(call.ran.trace)
        /\ IF Unauthenticated
           THEN IsResponse(401)
           ELSE /\ IsResponse(405)
                /\ ConfiguredOrDefault(call.ran.result.body,
                                       DEFAULT_METHOD_NOT_ALLOWED_MESSAGE)

C1_Witness ==
    /\ Handled /\ GetOnly /\ call.request.method = "POST" /\ ~Unauthenticated
    /\ wrapped_view.djapy_has_login_required
    /\ IsResponse(405)

-----------------------------------------------------------------------------
(* C2 *)

\* C2: with loginRequired, an unauthenticated request ends with 401; neither
\* parameter extraction nor response validation nor the view body runs.
C2_Unauthenticated401 ==
    (Handled /\ Unauthenticated) =>
        /\ IsResponse(401)
        /\ call.ran.trace = <<"AuthCheck">>
        /\ call.ran.invoked = 0

C2_Witness ==
    /\ Handled /\ Unauthenticated /\ MethodOutside
    /\ IsResponse(401)
    /\ wrapped_view.required_params # {}

-----------------------------------------------------------------------------
(* C3 *)

StagesMethodFirst ==
    <<"MethodCheck", "AuthCheck", "ParamValidation", "Invoke", "ResponseResolve">>
StagesAuthFirst ==
    <<"AuthCheck", "MethodCheck", "ParamValidation", "Invoke", "ResponseResolve">>

\* the stages of the trace, the error dispatch that may end it left out
StagesRun(trace) == SelectSeq(trace, LAMBDA st : st # "ErrorDispatch")

IsPrefix(s, t) == Len(s) <= Len(t) /\ SubSeq(t, 1, Len(s)) = s

\* C3 (as stated): the stages run in the order MethodCheck, AuthCheck,
\* ParamValidation, Invoke, ResponseResolve; a request with a method outside
\* allowedMethods that is also unauthenticated on a loginRequired handler
\* ends with 405.
C3_MethodBeforeAuth ==
    (Handled /\ MethodOutside /\ Unauthenticated) =>
        /\ IsPrefix(StagesRun(call.ran.trace), StagesMethodFirst)
        /\ IsResponse(405)

\* C3 (amended): the stages run in the order AuthCheck, MethodCheck,
\* ParamValidation, Invoke, ResponseResolve, each at most once and none
\* after a later one; a request with a method outside allowedMethods that is
\* also unauthenticated on a loginRequired handler ends with 401, not 405.
C3_AuthBeforeMethod ==
    Handled =>
        /\ IsPrefix(StagesRun(call.ran.trace), StagesAuthFirst)
        /\ (MethodOutside /\ Unauthenticated) => IsResponse(401)
        /\ (MethodOutside /\ ~Unauthenticated) =>
               (IsResponse(405) /\ call.ran.trace = <<"AuthCheck", "MethodCheck">>)

C3_Witness ==
    /\ Handled /\ MethodOutside /\ Unauthenticated
    /\ call.ran.trace = <<"AuthCheck">>
    /\ wrapped_view.version = "v2"

-----------------------------------------------------------------------------
(* C4 *)

\* a request that passed both gates and lacks a required parameter
LacksParam == Handled /\ PassedGates /\ Missing # {}

\* C4 (as stated): a request that passes the gates and lacks a required
\* parameter ends with 400 and the structured validation error, an entry per
\* missing field, and the view body does not run, whatever the registry holds.
C4_MissingParam400 ==
    LacksParam => (IsValidationError(Missing) /\ call.ran.invoked = 0)

\* C4 (amended): for such a request the view body never runs, whatever the
\* registry holds; and the response is the 400 with the structured validation
\* error, an entry per missing field, unless a registry entry took the
\* validation error: the v2 wrapper consults the registry first, and an
\* entry it invokes is one declared for the validation error's type.
C4_MissingParam400UnlessDispatched ==
    LacksParam =>
        /\ call.ran.invoked = 0
        /\ "Invoke" \notin SeqToSet(call.ran.trace)
        /\ (call.ran.result.kind = "response" /\ call.ran.called = <<>>) =>
               IsValidationError(Missing)
        /\ \A i \in SeqToSet(call.ran.called) :
               errorhandler_functions[i].annotation = ValidationError
        /\ wrapped_view.version = "data" => call.ran.called = <<>>

C4_Witness ==
    /\ LacksParam /\ Cardinality(Missing) = 2
    /\ wrapped_view.version = "v2"
    /\ Len(errorhandler_functions) = 2
    /\ IsValidationError(Missing)

-----------------------------------------------------------------------------
(* C5 *)

\* the handler's responseSchemaMap, for a handler that declares a mapping
DeclaresMap == wrapped_view.schema.kind = "dict"
ResponseSchemaKeys == DictKeys(wrapped_view.schema.map)

\* the view body returned with a status that is no key of responseSchemaMap
OffContract ==
    Handled /\ DeclaresMap /\ ViewReturned /\ ProducedStatus \notin ResponseSchemaKeys

-----------------------------------------------------------------------------
(* C6 *)

\* the entries of the registry declared for exception class cls
EntriesFor(cls) ==
    {i \in 1..Len(errorhandler_functions) : errorhandler_functions[i].annotation = cls}

\* the first entry that ends a lookup for cls: one without an `exception`
\* parameter, or one declared for cls that returns a non-empty mapping or
\* raises; 0 when the lookup runs through
FirstDeciding(cls) ==
    LET deciding == {i \in 1..Len(errorhandler_functions) :
            \/ errorhandler_functions[i].annotation = "MISSING"
            \/ /\ errorhandler_functions[i].annotation = cls
               /\ errorhandler_functions[i].returns \in
                      {"mapping", "unserializable", "raises"}}
    IN  IF deciding = {} THEN 0
        ELSE CHOOSE i \in deciding : \A j \in deciding : i <= j

\* C6 (as stated): the view body raises E; with a registry entry for E the
\* response is the 400 with that entry's mapping, with none the generic 500.
C6_Dispatch ==
    (Handled /\ ViewRaised /\ wrapped_view.version = "v2") =>
        IF EntriesFor(call.outcome.exc) # {}
        THEN /\ IsResponse(400)
             /\ call.ran.result.body.tag = "errorhandler_data"
        ELSE IsServerError

\* C6 (amended): the view body raises E. When the first registry entry that
\* ends the lookup is one declared for E and returns a non-empty mapping, the
\* response is the 400 with exactly that mapping; when the lookup runs through
\* (no entry for E returns a non-empty mapping) the response is the generic
\* 500, or the 400 with the structured validation error if E is the
\* validation error. The data wrapper consults no registry: the 500.
C6_DispatchFirstMapping ==
    (Handled /\ ViewRaised) =>
        IF wrapped_view.version = "data" THEN IsServerError
        ELSE LET i == FirstDeciding(call.outcome.exc) IN
             /\ (i # 0 /\ errorhandler_functions[i].annotation = call.outcome.exc
                       /\ errorhandler_functions[i].returns = "mapping") =>
                    call.ran.result =
                        JsonResponse(Body("errorhandler_data", ToString(i), {}), 400)
             /\ i = 0 =>
                    IF call.outcome.exc = ValidationError
                    THEN IsResponse(400) /\ call.ran.result.body.tag = "validation_error"
                    ELSE IsServerError

C6_Witness ==
    /\ Handled /\ ViewRaised /\ wrapped_view.version = "v2"
    /\ call.outcome.exc = "NotFoundError"
    /\ Len(errorhandler_functions) = 2
    /\ errorhandler_functions[1].annotation = "NotFoundError"
    /\ errorhandler_functions[1].returns = "none"
    /\ call.ran.result = JsonResponse(Body("errorhandler_data", "2", {}), 400)

-----------------------------------------------------------------------------
(* C7 *)

\* C7: whatever is raised while the wrapper validates the parameters, calls
\* the view body, resolves the response or dispatches to an error handler,
\* the wrapped view returns a response: no exception leaves it.
C7_NoExceptionEscapes ==
    Handled => call.ran.result.kind = "response"

-----------------------------------------------------------------------------
(* C8 *)

\* the registry as the lookup for cls sees it: every entry has an
\* `exception` parameter, and none is declared for cls
NoEntryMatches(cls) ==
    \A i \in 1..Len(errorhandler_functions) :
        errorhandler_functions[i].annotation \notin {cls, "MISSING"}

-----------------------------------------------------------------------------
(* C9 *)

\* C9: a handler whose return annotation is the bare schema UserSchema acts as
\* one with responseSchemaMap = {200: UserSchema}: a bare value that satisfies
\* the schema gives the 200 with the serialized value, and a pair with another
\* status gives no success.
C9_BareAnnotationIs200 ==
    (Handled /\ wrapped_view.version = "v2" /\ ViewReturned
        /\ wrapped_view.schema = BareAnnotation("UserSchema")) =>
        IF call.outcome = Return("user")
        THEN call.ran.result = JsonResponse(model_dict("UserSchema", "user"), 200)
        ELSE ~IsSuccess

-----------------------------------------------------------------------------
(* C10 *)

\* C10: two consecutive calls of OpenAPI.dict() with no change of the routing
\* tree between them return identical documents: the same paths, the same
\* component schemas, the same $defs.
C10_GenerateTwiceSame ==
    documents.stable = 2 => documents.last = documents.previous

C10_Witness ==
    /\ documents.stable = 2
    /\ documents.last.kind = "document"
    /\ documents.previous.kind = "document"
    /\ Len(documents.last.paths) = 2
    /\ documents.last.components # <<>>
    /\ \E i \in 1..Len(resolved_url) : resolved_url[i].kind = "resolver"

-----------------------------------------------------------------------------
(* C11 *)

\* the leaves of a routing tree, at any depth
RECURSIVE LeavesOf(_)
LeavesOf(url_patterns) ==
    IF url_patterns = <<>> THEN {}
    ELSE (IF Head(url_patterns).kind = "pattern"
          THEN {Head(url_patterns)}
          ELSE LeavesOf(Head(url_patterns).url_patterns))
         \cup LeavesOf(Tail(url_patterns))

\* the leaves of the tree that carry both markers
IncludedLeaves == {leaf \in LeavesOf(resolved_url) : Included(leaf)}

\* the document a walk of the tree gives when nothing was generated before
FreshDocument == Document(generate_paths(WalkFrom(<<>>, <<>>, <<>>), resolved_url))

\* C11: the document a call of OpenAPI.dict() returns is determined by the
\* routing tree at the time of the call alone: it is the document of a fresh
\* walk, and each of its paths is the path of a leaf that is in the tree and
\* opts in; nothing is carried over from earlier calls.
C11_FreshWalk ==
    documents.stable >= 1 =>
        /\ documents.last = FreshDocument
        /\ \A i \in 1..Len(documents.last.paths) :
               \E leaf \in IncludedLeaves :
                   make_path_name_from_url(leaf.route) = documents.last.paths[i][1]

-----------------------------------------------------------------------------
(* C12 *)

\* C12: a walk visits the nodes of the tree at any depth and builds a path
\* for a leaf if and only if the leaf's callback carries both markers: the
\* leaves the last call built a path for are the leaves of the tree that
\* carry both.
C12_BothMarkersIff ==
    documents.stable >= 1 =>
        SeqToSet(documents.contributed) = {leaf.name : leaf \in IncludedLeaves}

-----------------------------------------------------------------------------
(* C13 *)

\* C13: with the extension module absent, initialization is no error: the
\* registry is empty, decorating a view succeeds, and a lookup for an
\* exception the view body raises invokes nothing and leaves the request to
\* the generic error path.
C13_AbsentModuleNotError ==
    ~imported_errorhandler.present =>
        /\ errorhandler_functions = <<>>
        /\ wrapped_view.state # "failed"
        /\ (Handled /\ ViewRaised) =>
               /\ call.ran.called = <<>>
               /\ IsServerError \/ IsValidationError({})

-----------------------------------------------------------------------------
(* C14 *)

\* the wrapper's except branch ran: a lookup was made
LookedUp == Handled /\ "ErrorDispatch" \in SeqToSet(call.ran.trace)

\* the class of the exception the lookup was made for
LookedUpClass ==
    IF Missing # {} THEN ValidationError
    ELSE IF call.outcome.kind = "raise" THEN call.outcome.exc
    ELSE resolve_v2(wrapped_view.schema, call.outcome).exc.cls

StrictlyIncreasing(s) == \A j \in 1..Len(s), k \in 1..Len(s) : j < k => s[j] < s[k]

\* C14 (as stated): a lookup invokes only the first entry declared for the
\* exception's type; no later entry is invoked for the same exception,
\* whatever the first returns.
C14_FirstMatchWins ==
    LookedUp =>
        /\ Len(call.ran.called) <= 1
        /\ \A k \in 1..Len(call.ran.called) :
               \A i \in EntriesFor(LookedUpClass) : call.ran.called[k] <= i

\* C14 (amended): a lookup examines the entries in registration order and
\* invokes, in that order, each entry declared for the exception's type until
\* one of them returns a non-empty mapping or the lookup ends with an
\* exception (an entry that raises, or one without an `exception`
\* parameter); it invokes no entry after that one, and never an entry
\* declared for another type. An entry that returns an empty mapping, None or
\* a value that is no mapping does not end the lookup.
C14_InvokedUntilMapping ==
    LookedUp =>
        LET d == FirstDeciding(LookedUpClass) IN
        /\ StrictlyIncreasing(call.ran.called)
        /\ SeqToSet(call.ran.called) =
               {i \in EntriesFor(LookedUpClass) : d = 0 \/ i <= d}

C14_Witness ==
    /\ LookedUp /\ ViewRaised
    /\ call.outcome.exc = "NotFoundError"
    /\ Len(errorhandler_functions) = 2
    /\ errorhandler_functions[1] = ErrorHandler("NotFoundError", "empty_mapping")
    /\ errorhandler_functions[2] = ErrorHandler("NotFoundError", "non_mapping")
    /\ call.ran.called = <<1, 2>>
    /\ IsServerError

-----------------------------------------------------------------------------
(* C15 *)

\* every handler_ function of the registry has a parameter named `exception`
EntriesDeclareType ==
    \A i \in 1..Len(errorhandler_functions) :
        errorhandler_functions[i].annotation # "MISSING"

\* the view body raised an exception whose class is a strict subclass of a
\* class the registry has an entry for, and has no entry itself
SubclassRaised ==
    /\ Handled /\ ViewRaised /\ wrapped_view.version = "v2"
    /\ EntriesFor(BaseOf(call.outcome.exc)) # {}
    /\ EntriesFor(call.outcome.exc) = {}

-----------------------------------------------------------------------------
(* C16 *)

\* the entry of responseSchemaMap the wrapper resolves the returned value
\* against: that of the produced status in the v2 wrapper, that of 200 in
\* the data wrapper
ResolvedType ==
    IF wrapped_view.version = "v2"
    THEN DictGet(wrapped_view.schema.map, ProducedStatus)
    ELSE DictGet(wrapped_view.schema.map, 200)

\* the view body returned and the entry resolved against is a plain type
PlainResolved ==
    Handled /\ DeclaresMap /\ ViewReturned /\ ResolvedType \in PlainTypes

\* the response that carries the converted value
ConvertedResponse(status) ==
    JsonResponse(Body("converted", Convert(ResolvedType, call.outcome.value), {}), status)

-----------------------------------------------------------------------------
(* C17 *)

\* the value satisfies the entry of responseSchemaMap: a Schema validates
\* it, or it is an instance of the plain type
Satisfies(type, value) ==
    IF type \in SchemaClasses THEN model_validate(type, value)
    ELSE type \in PlainTypes /\ isinstance(value, type)

\* the serialized form of a value that satisfies the entry
Serialized(type, value) ==
    IF type \in SchemaClasses THEN model_dict(type, value)
    ELSE Body("converted", Convert(type, value), {})

\* C17: when the view returns a pair (status, value) whose status is a key of
\* responseSchemaMap and whose value satisfies the entry of that status, the
\* response is the success with exactly that status and the serialized
\* value; a bare value is resolved against status 200 in the same way.
C17_PairStatusSuccess ==
    (Handled /\ DeclaresMap /\ ViewReturned
        /\ ProducedStatus \in ResponseSchemaKeys
        /\ Satisfies(DictGet(wrapped_view.schema.map, ProducedStatus),
                     call.outcome.value)) =>
        call.ran.result =
            JsonResponse(Serialized(DictGet(wrapped_view.schema.map, ProducedStatus),
                                    call.outcome.value),
                         ProducedStatus)

-----------------------------------------------------------------------------
(* C18 *)

\* C18: once the registry is built and the view is wrapped, the calls of the
\* wrapped view, however many are under way at once and however their
\* statements interleave, leave the registry (its entries and their order)
\* and the view's contract (allowedMethods, loginRequired, responseSchemaMap,
\* requiredParams) as they are.
C18_SharedStateUnchanged ==
    [][ /\ errorhandler_functions' = errorhandler_functions
        /\ wrapped_view'.djapy_allowed_method = wrapped_view.djapy_allowed_method
        /\ wrapped_view'.djapy_has_login_required = wrapped_view.djapy_has_login_required
        /\ wrapped_view'.schema = wrapped_view.schema
        /\ wrapped_view'.required_params = wrapped_view.required_params ]_vars

\* two calls under way at once: one ended with the mapping of a registry
\* entry, the other is about to resolve what the view returned
C18_Witness ==
    \E t \in Threads, u \in Threads :
        /\ t # u
        /\ inflight[t].pc = "done"
        /\ inflight[t].ran.called # <<>>
        /\ inflight[t].ran.result.status = 400
        /\ inflight[u].pc = "ResponseResolve"
        /\ errorhandler_functions = imported_errorhandler.functions

-----------------------------------------------------------------------------
(* C19 *)

\* how often a stage occurs in a trace
Occurrences(trace, stage) == Cardinality({i \in 1..Len(trace) : trace[i] = stage})

\* C19: every call of the wrapped view ends in exactly one terminal outcome,
\* whatever the view body and the error-handler functions return or raise:
\* the success, its status a key of responseSchemaMap, or a failure response
\* with status 400, 401, 405 or 500; and parameter validation, the view body
\* and response resolution each run at most once in the call.
C19_OneTerminalOutcome ==
    Handled =>
        /\ call.ran.result.kind = "response"
        /\ IF IsSuccess
           THEN call.ran.result.status \in DictKeys(wrapped_view.schema.map)
           ELSE call.ran.result.status \in {400, 401, 405, 500}
        /\ \A stage \in {"ParamValidation", "Invoke", "ResponseResolve"} :
               Occurrences(call.ran.trace, stage) <= 1
        /\ call.ran.invoked <= 1

====
